---- MODULE Spec2Model ----
(***************************************************************************)
(* Model of fetch_commits.py: the rate-limited transport (safe_get), the   *)
(* repository set resolver (get_repos_list), the two paginated feeds       *)
(* (fetch_commits, fetch_items) and the run (main) with its two persisted  *)
(* documents, cache.json and leaderboard.json.                             *)
(*                                                                         *)
(* Three specifications share the module:                                  *)
(*   SpecGet   one call of safe_get, one loop iteration per step;          *)
(*   SpecRepos get_repos_list applied to bounded configurations;           *)
(*   Spec      successive runs of main() against a changing remote.        *)
(***************************************************************************)
EXTENDS Integers, Sequences, FiniteSets, TLC

\* Python's None (JSON null), which is also what dict.get gives for an absent
\* key or header when no default is passed.
Null == "None"
\* A key the JSON object does not have, where the code passes a default.
Absent == "absent"
\* `not v` for a value that is None or a string.
Falsy(v) == v = Null \/ v = ""

\* ------------------------------------------------------------------ bounds
\* Requests one call of safe_get may make before the model stops following it.
MaxAttempts == 8
\* Items the modelled remote puts on one page (the code asks for PER_PAGE).
PageLen == 2
\* Runs of main() followed, and items that appear on the remote before the
\* last of them has ended.
MaxRuns == 2
MaxPush == 2
\* Entries of ton_repos.json under both labels together, the seconds that
\* may pass between the resolver's two calls of expand, and the time of the
\* resolver's runs in seconds.
MaxEntries == 3
MaxTicks == 1
Now0 == 1000000

VARIABLES
  \* safe_get: position, the local `backoff`, the response `r` of the last
  \* request, the last sleep `retry`, the number of requests made, and the
  \* number of throttled attempts so far when none carried a Retry-After.
  sg_pc, backoff, r, retry, n_req, k_nohdr,
  \* The files and the world: ton_repos.json, cache.json, leaderboard.json,
  \* the remote's organization listings, commits and issues, and the clock.
  cfg, cache_file, output_file, org_api, remote_commits, remote_issues, now,
  \* main(): position, the dictionaries `cache`, `users` and `repos_map`, the
  \* keys expand(official) returned (they come first in repos_map's order),
  \* the sets seen_shas and seen_issues, the repository being processed, the
  \* repositories already processed, and the feed's locals `page` and `since`.
  pc, cache, users, repos_map, first_keys, seen_shas, seen_issues, repo, done,
  page, since,
  \* What is recorded about the runs: their number, how the last process ended,
  \* the outcome of get_repos_list, the last page request and the last
  \* interruption of a feed, what this run wrote, the pushes so far,
  \* whether the remote and the files were left alone, the files as the run
  \* found them, and the records the run's feeds yielded.
  run, exit, res, ev, intr, wrote, pushes, quiet, snap, fetched,
  \* The text of fetch_commits.py that python is given: the file as committed,
  \* or the file with the log call at 328 repaired.
  build

tvars == <<sg_pc, backoff, r, retry, n_req, k_nohdr>>
fvars == <<cfg, cache_file, output_file, org_api, remote_commits, remote_issues, now>>
mvars == <<pc, cache, users, repos_map, first_keys, seen_shas, seen_issues, repo,
           done, page, since>>
hvars == <<run, exit, res, ev, intr, wrote, pushes, quiet, snap, fetched>>

vars == <<tvars, fvars, mvars, hvars, build>>

\* ------------------------------------------------------- safe_get (35-58)
\* Messages a JSON error body may carry, as the server sends them.
SecondaryMessage == "You have exceeded a secondary rate limit"
PrimaryMessage == "API rate limit exceeded for user ID 1"
PermissionMessage == "Resource not accessible by personal access token"
NotFoundMessage == "Not Found"

\* str.lower() on the messages above.
Lower(s) ==
  CASE s = SecondaryMessage -> "you have exceeded a secondary rate limit"
    [] s = PrimaryMessage -> "api rate limit exceeded for user id 1"
    [] s = PermissionMessage -> "resource not accessible by personal access token"
    [] s = NotFoundMessage -> "not found"
    [] OTHER -> s

\* `"secondary rate limit" in msg` on the lower-cased messages.
HasSecondaryRateLimit(msg) ==
  msg = "you have exceeded a secondary rate limit"

\* Values of the Retry-After header: absent, whole seconds, or an HTTP date.
RetryAfterValues == {Null, "7", "120", "Wed, 21 Oct 2026 07:28:00 GMT"}

\* int(x) parses decimal text; anything else raises ValueError.
IntParses(h) == h \in {"7", "120"}
IntOf(h) == CASE h = "7" -> 7 [] h = "120" -> 120 [] OTHER -> 0

\* The responses requests.get may hand to safe_get.
Responses ==
  [status : {200}, json : {TRUE}, message : {Null}, retry_after : {Null}]
    \cup [status : {404}, json : {TRUE}, message : {NotFoundMessage},
          retry_after : {Null}]
    \cup [status : {500}, json : {FALSE}, message : {Null}, retry_after : {Null}]
    \cup [status : {429}, json : {TRUE, FALSE}, message : {SecondaryMessage},
          retry_after : RetryAfterValues]
    \cup [status : {403}, json : {TRUE},
          message : {SecondaryMessage, PrimaryMessage, PermissionMessage},
          retry_after : RetryAfterValues]
    \cup [status : {403}, json : {FALSE}, message : {Null},
          retry_after : RetryAfterValues]

NoResponse == [status |-> 0, json |-> FALSE, message |-> Null, retry_after |-> Null]

\* msg: "" unless the body is JSON, then its lower-cased "message" (40-45).
MsgOf(resp) ==
  IF resp.json /\ resp.message # Null THEN Lower(resp.message) ELSE ""

\* The test of line 39 looking for 429 alone.
IsPlain_Not429(resp) == resp.status # 429

\* The branch of the loop body a response takes (39-58).
IsSecondary403(resp) == resp.status = 403 /\ HasSecondaryRateLimit(MsgOf(resp))
IsForbidden(resp) == resp.status = 403 /\ ~HasSecondaryRateLimit(MsgOf(resp))
Is429(resp) == resp.status = 429
IsPlain(resp) == resp.status \notin {429, 403}

\* int(r.headers.get("Retry-After", backoff)) (47, 53).
RetryOf(resp, b) == IF resp.retry_after = Null THEN b ELSE IntOf(resp.retry_after)
RetryRaises(resp) == resp.retry_after # Null /\ ~IntParses(resp.retry_after)

\* backoff = min(backoff * 2, 60) (56).
BackoffCeiling == 60
NextBackoff(b) == IF b * 2 < BackoffCeiling THEN b * 2 ELSE BackoffCeiling

TInit ==
  /\ sg_pc = "loop"
  /\ backoff = 1
  /\ r = NoResponse
  /\ retry = 0
  /\ n_req = 0
  /\ k_nohdr = 0

\* Lines 46-50: a 403 whose message names a secondary rate limit sleeps for
\* Retry-After (or backoff) and retries; backoff is left as it is.
SgSecondary(resp) ==
  /\ IsSecondary403(resp) /\ ~RetryRaises(resp)
  /\ retry' = RetryOf(resp, backoff)
  /\ k_nohdr' = IF resp.retry_after = Null /\ k_nohdr = n_req THEN k_nohdr + 1 ELSE k_nohdr
  /\ UNCHANGED <<sg_pc, backoff>>

\* Lines 51-52: any other 403 raises RuntimeError.
SgForbidden(resp) ==
  /\ IsForbidden(resp)
  /\ sg_pc' = "raised RuntimeError"
  /\ UNCHANGED <<backoff, retry, k_nohdr>>

\* Lines 53-57: a 429 sleeps for Retry-After (or backoff), doubles backoff up
\* to the ceiling and retries.
Sg429(resp) ==
  /\ Is429(resp) /\ ~RetryRaises(resp)
  /\ retry' = RetryOf(resp, backoff)
  /\ backoff' = NextBackoff(backoff)
  /\ k_nohdr' = IF resp.retry_after = Null /\ k_nohdr = n_req THEN k_nohdr + 1 ELSE k_nohdr
  /\ UNCHANGED sg_pc

\* Lines 47 and 53: int() of a Retry-After that is not a number raises.
SgBadHeader(resp) ==
  /\ (Is429(resp) \/ IsSecondary403(resp)) /\ RetryRaises(resp)
  /\ sg_pc' = "raised ValueError"
  /\ UNCHANGED <<backoff, retry, k_nohdr>>

\* Line 58: every other response is returned.
SgReturn(resp) ==
  /\ IsPlain(resp)
  /\ sg_pc' = "returned"
  /\ UNCHANGED <<backoff, retry, k_nohdr>>

\* One iteration of `while True` (37-58): the request and the branch taken.
SafeGetStep ==
  /\ sg_pc = "loop"
  /\ n_req < MaxAttempts
  /\ \E resp \in Responses :
       /\ r' = resp
       /\ n_req' = n_req + 1
       /\ \/ SgSecondary(resp)
          \/ SgForbidden(resp)
          \/ Sg429(resp)
          \/ SgBadHeader(resp)
          \/ SgReturn(resp)
  /\ UNCHANGED <<fvars, mvars, hvars, build>>

\* ------------------------------------------------ strings as token sequences
\* A string is a sequence of tokens: a name, "/", " ", the suffix ".git", or
\* the scheme and host of a URL.
Slash == "/"
Space == " "
DotGit == ".git"
HttpsHost == "https://github.com"

RECURSIVE LStrip(_, _)
LStrip(s, ch) == IF s # <<>> /\ Head(s) = ch THEN LStrip(Tail(s), ch) ELSE s

RECURSIVE RStrip(_, _)
RStrip(s, ch) ==
  IF s # <<>> /\ s[Len(s)] = ch THEN RStrip(SubSeq(s, 1, Len(s) - 1), ch) ELSE s

\* str.strip()
Strip(s) == RStrip(LStrip(s, Space), Space)

\* str.split("/"): the segments between slashes, empty ones included.
RECURSIVE SplitFrom(_, _)
SplitFrom(s, cur) ==
  IF s = <<>> THEN <<cur>>
  ELSE IF Head(s) = Slash THEN <<cur>> \o SplitFrom(Tail(s), <<>>)
  ELSE SplitFrom(Tail(s), Append(cur, Head(s)))
Split(s) == SplitFrom(s, <<>>)

\* f"{org}/{name}"
RepoName(owner, name) == owner \o <<Slash>> \o name

\* Python truthiness of a string or a list. normalize's None is written as the
\* empty string: both are falsy and dropped at 144-145 before any other use.
Truthy(v) == v # <<>>

\* ------------------------------------------- get_repos_list (131-170)
ORG_TTL == 7 * 24 * 3600

\* normalize (136-142)
normalize(entry) ==
  LET e == Strip(entry) IN
  IF e # <<>> /\ Head(e) = HttpsHost
  THEN LET path == RStrip(LStrip(Tail(e), Slash), Slash) IN
       IF path # <<>> /\ path[Len(path)] = DotGit
       THEN SubSeq(path, 1, Len(path) - 1) ELSE path
  ELSE e

\* {normalize(x) for x in cfg.get(label, []) if normalize(x)} (144-145)
NormalizedSet(entries) ==
  {normalize(x) : x \in {y \in entries : Truthy(normalize(y))}}

\* The response safe_get hands back for page `page` of an organization's
\* repository listing: the pages the remote holds, then an empty page.
OrgPage(pages, pg) ==
  IF pg <= Len(pages) THEN pages[pg] ELSE [status |-> 200, block |-> <<>>]

\* [f"{org}/{r['name']}" for r in block] (125)
RECURSIVE BlockRepos(_, _)
BlockRepos(org, block) ==
  IF block = <<>> THEN <<>>
  ELSE <<RepoName(org, Head(block))>> \o BlockRepos(org, Tail(block))

\* org_repos_from_api (105-128): the while loop from `page` on. A 403
\* makes safe_get raise; 404 and any other non-success status end the loop.
RECURSIVE OrgLoop(_, _, _, _)
OrgLoop(org, pages, pg, repos) ==
  LET resp == OrgPage(pages, pg) IN
  IF resp.status = 403 THEN [repos |-> repos, raised |-> TRUE]
  ELSE IF resp.status = 404 THEN [repos |-> repos, raised |-> FALSE]
  ELSE IF resp.status # 200 THEN [repos |-> repos, raised |-> FALSE]
  ELSE IF resp.block = <<>> THEN [repos |-> repos, raised |-> FALSE]
  ELSE OrgLoop(org, pages, pg + 1, repos \o BlockRepos(org, resp.block))

org_repos_from_api(org, api) ==
  OrgLoop(org, IF org \in DOMAIN api THEN api[org]
               ELSE <<[status |-> 404, block |-> <<>>]>>, 1, <<>>)

SeqToSet(q) == {q[i] : i \in DOMAIN q}

\* The comparison with the TTL off by one.
SnapshotStale_AtTTL(repos, ts, t) == repos = <<>> \/ t - ts >= ORG_TTL
\* now - ts > ORG_TTL, or no repos (157)
SnapshotStale(repos, ts, t) == repos = <<>> \/ t - ts > ORG_TTL

\* The loop body with the test at 162 widened to two parts or more, so that
\* an entry of three parts is taken as a repository.
ExpandOne_KeepsBad(x, acc, t, api) ==
  LET parts == Split(x) IN
  IF acc.raised THEN acc
  ELSE IF Len(parts) = 1
  THEN LET has == x \in DOMAIN acc.orgs
           repos == IF has THEN acc.orgs[x].repos ELSE <<>>
           ts == IF has THEN acc.orgs[x].ts ELSE 0
       IN IF repos = <<>> \/ t - ts > ORG_TTL
          THEN LET f == org_repos_from_api(x, api) IN
               IF f.raised
               THEN [acc EXCEPT !.raised = TRUE, !.calls = acc.calls \o <<x>>]
               ELSE [acc EXCEPT
                       !.orgs = [o \in DOMAIN acc.orgs \cup {x} |->
                                   IF o = x THEN [repos |-> f.repos, ts |-> t]
                                   ELSE acc.orgs[o]],
                       !.calls = acc.calls \o <<x>>,
                       !.out = acc.out \cup SeqToSet(f.repos)]
          ELSE [acc EXCEPT !.out = acc.out \cup SeqToSet(repos)]
  ELSE [acc EXCEPT !.out = acc.out \cup {x}]

\* One pass of the loop body of expand (150-165) for entry x. acc holds
\* out, cache["orgs"], the expansion calls made so far, the entries warned
\* about, and whether an exception has propagated.
ExpandOne(x, acc, t, api) ==
  LET parts == Split(x) IN
  IF acc.raised THEN acc
  ELSE IF Len(parts) = 1
  THEN LET has == x \in DOMAIN acc.orgs
           repos == IF has THEN acc.orgs[x].repos ELSE <<>>
           ts == IF has THEN acc.orgs[x].ts ELSE 0
       IN IF SnapshotStale(repos, ts, t)
          THEN LET f == org_repos_from_api(x, api) IN
               IF f.raised
               THEN [acc EXCEPT !.raised = TRUE, !.calls = acc.calls \o <<x>>]
               ELSE [acc EXCEPT
                       !.orgs = [o \in DOMAIN acc.orgs \cup {x} |->
                                   IF o = x THEN [repos |-> f.repos, ts |-> t]
                                   ELSE acc.orgs[o]],
                       !.calls = acc.calls \o <<x>>,
                       !.out = acc.out \cup SeqToSet(f.repos)]
          ELSE [acc EXCEPT !.out = acc.out \cup SeqToSet(repos)]
  ELSE IF Len(parts) = 2 THEN [acc EXCEPT !.out = acc.out \cup {x}]
  ELSE [acc EXCEPT !.warned = acc.warned \cup {x}]

\* The orders in which `for x in src` (150) may visit a set of strings: the
\* iteration order of a Python set changes from process to process.
Orders(src) ==
  {f \in [1..Cardinality(src) -> src] :
     \A i, j \in 1..Cardinality(src) : f[i] = f[j] => i = j}

\* The for loop of expand (150-165) visiting the entries in the given order.
\* When a pass raises, what the earlier passes did (a warning logged, a
\* snapshot stored) depends on the order.
RECURSIVE ExpandLoop(_, _, _, _)
ExpandLoop(order, acc, t, api) ==
  IF order = <<>> THEN acc
  ELSE ExpandLoop(Tail(order), ExpandOne(Head(order), acc, t, api), t, api)

\* expand (147-166) on a set visited in the given order.
expand(order, orgs, calls, warned, t, api) ==
  ExpandLoop(order, [out |-> {}, orgs |-> orgs, calls |-> calls,
                     warned |-> warned, raised |-> FALSE], t, api)

\* result = {r: True for r in expand(official)};
\* result.update({r: False for r in expand(unofficial)}) (168-169)
MergeResult(official_out, unofficial_out) ==
  [rp \in official_out \cup unofficial_out |->
     IF rp \in unofficial_out THEN FALSE ELSE TRUE]

\* Lines 147-170 against the organization listings api, with
\* cache["orgs"] = orgs: o1 and o2 are the orders in which the sets official
\* and unofficial are visited, t1 and t2 the clock as each call of expand
\* reads it (149).
ResolveInOrder(o1, o2, orgs, t1, t2, api) ==
  LET eo == expand(o1, orgs, <<>>, {}, t1, api)
      eu == expand(o2, eo.orgs, eo.calls, eo.warned, t2, api)
  IN IF eo.raised
     THEN [result |-> <<>>, first |-> {}, second |-> {}, orgs |-> eo.orgs,
           calls |-> eo.calls, warned |-> eo.warned, raised |-> TRUE]
     ELSE [result |-> IF eu.raised THEN <<>> ELSE MergeResult(eo.out, eu.out),
           first |-> eo.out, second |-> eu.out, orgs |-> eu.orgs,
           calls |-> eu.calls, warned |-> eu.warned, raised |-> eu.raised]

\* get_repos_list (131-170) on configuration c, cache["orgs"] = orgs, against
\* the organization listings api, the clock reading t1 in expand(official)
\* and t2 in expand(unofficial): the outcomes the call may have, one for each
\* order in which the two sets may be visited.
get_repos_list(c, orgs, t1, t2, api) ==
  {ResolveInOrder(o1, o2, orgs, t1, t2, api) :
     o1 \in Orders(NormalizedSet(c.official)),
     o2 \in Orders(NormalizedSet(c.unofficial))}

\* ------------------------------------------------------------ dictionaries
\* A dict is a function on its keys: d.get(k) is <<d[k]>>, or <<>> for None.
EmptyDict == <<>>
Get(d, k) == IF k \in DOMAIN d THEN <<d[k]>> ELSE <<>>
GetOr(d, k, default) == IF k \in DOMAIN d THEN d[k] ELSE default
Put(d, k, v) == [x \in DOMAIN d \cup {k} |-> IF x = k THEN v ELSE d[x]]

\* ------------------------------------------------------- the cache (80-101)
EMPTY_CACHE ==
  [commits |-> {}, issues |-> {}, orgs |-> EmptyDict, repos |-> EmptyDict]

\* cache.json on disk: missing, broken (not JSON, or not a dict), or valid.
NoFile == [state |-> "missing", data |-> EMPTY_CACHE]
BrokenFile == [state |-> "broken", data |-> EMPTY_CACHE]
ValidFile(d) == [state |-> "valid", data |-> d]

\* load_cache (88-97)
load_cache(f) == IF f.state = "valid" THEN f.data ELSE EMPTY_CACHE

\* leaderboard.json on disk, and main's reading of it (278-284).
NoOutput == [state |-> "missing", users |-> <<>>]
BrokenOutput == [state |-> "broken", users |-> <<>>]
ValidOutput(us) == [state |-> "valid", users |-> us]
load_prev(f) == IF f.state = "valid" THEN f.users ELSE <<>>

\* ----------------------------------------------------- the remote's content
OwnerO == <<"o">>
RepoA == RepoName(OwnerO, <<"a">>)
RepoB == RepoName(OwnerO, <<"b">>)
MainRepos == {RepoA, RepoB}

\* ton_repos.json of the runs: one official and one unofficial repository.
MainCfg == [official |-> {RepoA}, unofficial |-> {RepoB}]

\* Commits as the list endpoint returns them: the hash, the linked login
\* (None when the e-mail is unlinked), the free-text author name, the date.
Commit(sha, login, name, date) ==
  [sha |-> sha, login |-> login, name |-> name, date |-> date]
\* Issues and pull requests of the issues endpoint. login is the user's
\* login, None when the user or the login is missing, or UserNull when the
\* item is served with "user": null.
UserNull == "user: null"
Issue(number, login, pr, date) ==
  [number |-> number, login |-> login, pr |-> pr, date |-> date]

\* The date of s2 lies ahead of every clock reading of the runs (an author
\* date is whatever the committer's machine said), and its author has
\* neither a linked login nor a name key. o/b lists an entry with an empty
\* hash, a commit whose author name is null, and two items without a login.
InitialCommits ==
  [rp \in MainRepos |->
     IF rp = RepoA
     THEN <<Commit("s2", Null, Absent, 99), Commit("s1", "alice", "Alice", 0)>>
     ELSE <<Commit("", Null, Absent, 0), Commit("s4", Null, Null, 0),
            Commit("s1", "alice", "Alice", 0)>>]
InitialIssues ==
  [rp \in MainRepos |->
     IF rp = RepoA THEN <<Issue(1, "alice", FALSE, 0)>>
     ELSE <<Issue(3, "", FALSE, 0), Issue(2, Null, FALSE, 0),
            Issue(1, "bob", FALSE, 0)>>]

\* What may appear on the remote later, dated when it appears.
CommitPool(rp, t) ==
  IF rp = RepoA THEN {Commit("s3", "alice", "Alice", t)}
  ELSE {}
IssuePool(rp, t) ==
  IF rp = RepoA
  THEN {Issue(2, "bob", TRUE, t), Issue(3, UserNull, FALSE, t)}
  ELSE {}

\* The page the remote serves for (page, since) at page size PageLen: the
\* items dated at or after `since`, newest first.
Min(a, b) == IF a < b THEN a ELSE b
Visible(items, sn) ==
  IF sn = <<>> THEN items ELSE SelectSeq(items, LAMBDA x : x.date >= sn[1])
RemotePage(items, pg, sn) ==
  LET v == Visible(items, sn) IN
  SubSeq(v, (pg - 1) * PageLen + 1, Min(pg * PageLen, Len(v)))

\* The responses a page request ends with: safe_get returns them (58), raises
\* RuntimeError (52), or raises ValueError on a Retry-After that is not a
\* number (47, 53).
FinalResponses ==
  {x \in Responses :
     \/ IsPlain(x)
     \/ IsForbidden(x)
     \/ (Is429(x) \/ IsSecondary403(x)) /\ RetryRaises(x)}

\* utc_now (65-66): the clock in whole seconds. The clock moves on when a run
\* starts and when something appears on the remote.
utc_now(t) == t

\* ------------------------------------------------- records and aggregation
\* base = f"https://github.com/{owner}/{name}" (175-176, 227-228)
Base(rp) ==
  LET parts == Split(rp) IN <<HttpsHost, Slash>> \o parts[1] \o <<Slash>> \o parts[2]
ProfileUrl(author) == <<HttpsHost, Slash, author>>

\* Lines 204-205: the login when it is truthy, or else whatever
\* commit.author holds under "name" (None and "" included), "unknown" only
\* when the key is absent.
AuthorOf(c) ==
  IF ~Falsy(c.login) THEN c.login
  ELSE IF c.name = Absent THEN "unknown" ELSE c.name

\* rec of fetch_commits (206-214) and of fetch_items (254-263).
CommitRec(c, rp, is_off) ==
  [sha |-> c.sha, author |-> AuthorOf(c), repo |-> Base(rp), date |-> c.date,
   is_official |-> is_off]
IssueRec(it, rp, is_off) ==
  [number |-> it.number, repo |-> Base(rp), is_official |-> is_off,
   type |-> IF it.pr THEN "pull_request" ELSE "issue"]
\* key = f"{repo}#{it.get('number')}" (250)
IssueKey(rp, it) == <<rp, "#", it.number>>

UserIndex(us, login) ==
  IF \E i \in DOMAIN us : us[i].login = login
  THEN CHOOSE i \in DOMAIN us : us[i].login = login ELSE 0

\* _new_user (288)
NewUser ==
  [login |-> Null, profile_url |-> <<>>, commits |-> <<>>, issues |-> <<>>,
   pull_requests |-> <<>>]

\* users_map = {u["login"]: u for u in prev.get("users", [])} (287): a later
\* entry of the same login replaces the earlier one in its place.
RECURSIVE UsersMap(_, _)
UsersMap(prev, acc) ==
  IF prev = <<>> THEN acc
  ELSE LET u == Head(prev)
           i == UserIndex(acc, u.login)
       IN UsersMap(Tail(prev), IF i = 0 THEN Append(acc, u) ELSE [acc EXCEPT ![i] = u])

\* The list replaced by the new record instead of extended.
AppendTo_Replace(u, col, rec) ==
  CASE col = "commits" -> [u EXCEPT !.commits = <<rec>>]
    [] col = "issues" -> [u EXCEPT !.issues = <<rec>>]
    [] OTHER -> [u EXCEPT !.pull_requests = <<rec>>]
\* u = users[author]; u["login"] = ...; u[col].append(rec) (304-307, 310-314)
AppendTo(u, col, rec) ==
  CASE col = "commits" -> [u EXCEPT !.commits = Append(@, rec)]
    [] col = "issues" -> [u EXCEPT !.issues = Append(@, rec)]
    [] OTHER -> [u EXCEPT !.pull_requests = Append(@, rec)]
Aggregate(us, author, col, rec) ==
  LET i == UserIndex(us, author)
      u == [(IF i = 0 THEN NewUser ELSE us[i]) EXCEPT
              !.login = author, !.profile_url = ProfileUrl(author)]
      v == AppendTo(u, col, rec)
  IN IF i = 0 THEN Append(us, v) ELSE [us EXCEPT ![i] = v]

\* The page loop without the test `sha in seen`.
RECURSIVE CommitsOfPage_NoDedup(_, _, _, _)
CommitsOfPage_NoDedup(data, rp, is_off, st) ==
  IF data = <<>> THEN st
  ELSE LET c == Head(data) IN
       CommitsOfPage_NoDedup(Tail(data), rp, is_off,
         IF Falsy(c.sha) THEN st
         ELSE [seen |-> st.seen \cup {c.sha},
               users |-> Aggregate(st.users, AuthorOf(c), "commits",
                                   CommitRec(c, rp, is_off)),
               yielded |-> Append(st.yielded,
                            [key |-> c.sha, author |-> AuthorOf(c), col |-> "commits",
                             rec |-> CommitRec(c, rp, is_off)])])

\* The for loop of fetch_commits over one page (194-216) with main's loop
\* body (304-307): st holds seen_shas, users and the records yielded.
RECURSIVE CommitsOfPage(_, _, _, _)
CommitsOfPage(data, rp, is_off, st) ==
  IF data = <<>> THEN st
  ELSE LET c == Head(data) IN
       CommitsOfPage(Tail(data), rp, is_off,
         IF Falsy(c.sha) \/ c.sha \in st.seen THEN st
         ELSE [seen |-> st.seen \cup {c.sha},
               users |-> Aggregate(st.users, AuthorOf(c), "commits",
                                   CommitRec(c, rp, is_off)),
               yielded |-> Append(st.yielded,
                            [key |-> c.sha, author |-> AuthorOf(c), col |-> "commits",
                             rec |-> CommitRec(c, rp, is_off)])])

\* The page loop without the test `key in seen`.
RECURSIVE ItemsOfPage_NoDedup(_, _, _, _)
ItemsOfPage_NoDedup(data, rp, is_off, st) ==
  IF data = <<>> THEN st
  ELSE LET it == Head(data) IN
       ItemsOfPage_NoDedup(Tail(data), rp, is_off,
         IF st.raised THEN st
         ELSE IF it.login = UserNull THEN [st EXCEPT !.raised = TRUE]
         ELSE IF Falsy(it.login) THEN st
         ELSE [raised |-> FALSE,
               seen |-> st.seen \cup {IssueKey(rp, it)},
               users |-> Aggregate(st.users, it.login,
                                   IF it.pr THEN "pull_requests" ELSE "issues",
                                   IssueRec(it, rp, is_off)),
               yielded |-> Append(st.yielded,
                            [key |-> IssueKey(rp, it), author |-> it.login,
                             col |-> IF it.pr THEN "pull_requests" ELSE "issues",
                             rec |-> IssueRec(it, rp, is_off)])])

\* The for loop of fetch_items over one page (246-264) with main's loop body
\* (310-314). it.get("user", {}).get("login") (247) raises AttributeError on
\* an item served with "user": null, which ends the loop and, nothing
\* catching it, main; an absent user, an empty one and a null or empty login
\* are skipped at 248.
RECURSIVE ItemsOfPage(_, _, _, _)
ItemsOfPage(data, rp, is_off, st) ==
  IF data = <<>> THEN st
  ELSE LET it == Head(data) IN
       ItemsOfPage(Tail(data), rp, is_off,
         IF st.raised THEN st
         ELSE IF it.login = UserNull THEN [st EXCEPT !.raised = TRUE]
         ELSE IF Falsy(it.login) \/ IssueKey(rp, it) \in st.seen THEN st
         ELSE [raised |-> FALSE,
               seen |-> st.seen \cup {IssueKey(rp, it)},
               users |-> Aggregate(st.users, it.login,
                                   IF it.pr THEN "pull_requests" ELSE "issues",
                                   IssueRec(it, rp, is_off)),
               yielded |-> Append(st.yielded,
                            [key |-> IssueKey(rp, it), author |-> it.login,
                             col |-> IF it.pr THEN "pull_requests" ELSE "issues",
                             rec |-> IssueRec(it, rp, is_off)])])

\* ---------------------------------------------------------------- main()
NoEvent ==
  [run |-> 0, repo |-> <<>>, feed |-> "none", page |-> 0, since |-> <<>>,
   kind |-> "none", first |-> FALSE, began |-> 0, yielded |-> <<>>]
NoInterrupt == [run |-> 0, repo |-> <<>>, feed |-> "none", page |-> 0]
NoResolve ==
  [calls |-> <<>>, warned |-> {}, raised |-> FALSE, before |-> EmptyDict,
   after |-> EmptyDict, second |-> {}, t1 |-> 0, t2 |-> 0]

\* No process: main's locals do not exist.
ProcIdle ==
  /\ pc = "idle"
  /\ cache = EMPTY_CACHE
  /\ users = <<>>
  /\ repos_map = EmptyDict
  /\ first_keys = {}
  /\ seen_shas = {}
  /\ seen_issues = {}
  /\ repo = <<>>
  /\ done = {}
  /\ page = 1
  /\ since = <<>>

\* The process ends (main returns, an exception leaves main, or it is
\* killed): its memory is gone.
ProcEnd(how) ==
  /\ pc' = "idle"
  /\ cache' = EMPTY_CACHE
  /\ users' = <<>>
  /\ repos_map' = EmptyDict
  /\ first_keys' = {}
  /\ seen_shas' = {}
  /\ seen_issues' = {}
  /\ repo' = <<>>
  /\ done' = {}
  /\ page' = 1
  /\ since' = <<>>
  /\ exit' = how

\* The request of a feed that ev' records, with the clock reading at the
\* feed's first request of the run.
Request(feed, kind, yielded) ==
  [run |-> run, repo |-> repo, feed |-> feed, page |-> page, since |-> since,
   kind |-> kind,
   first |-> ~(ev.run = run /\ ev.repo = repo /\ ev.feed = feed),
   began |-> IF ev.run = run /\ ev.repo = repo /\ ev.feed = feed
             THEN ev.began ELSE now,
   yielded |-> yielded]

\* The two texts. As committed, the f-string of the log call at 328 closes a
\* brace it never opened: python rejects the file with SyntaxError when it
\* compiles it, before the first statement runs. Repaired, the line logs the
\* plain message it was meant to log.
AsCommitted == "as committed"
Repaired == "line 328 repaired"
Builds == {AsCommitted, Repaired}

\* python3 fetch_commits.py on the file as committed: the process ends with
\* SyntaxError (exit status 1); no file is read and none is written.
SyntaxErrorAt328 ==
  /\ pc = "idle"
  /\ run < MaxRuns
  /\ build = AsCommitted
  /\ run' = run + 1
  /\ exit' = "syntaxerror"
  /\ now' = now + 1
  /\ wrote' = [cache |-> FALSE, out |-> FALSE]
  /\ quiet' = [prev |-> FALSE, cur |-> FALSE]
  /\ snap' = [cache |-> cache_file, out |-> output_file]
  /\ ev' = NoEvent
  /\ intr' = NoInterrupt
  /\ res' = NoResolve
  /\ fetched' = <<>>
  /\ UNCHANGED mvars
  /\ UNCHANGED <<cfg, cache_file, output_file, org_api, remote_commits, remote_issues>>
  /\ UNCHANGED pushes
  /\ UNCHANGED <<tvars, build>>

\* Lines 273-289: load_cache, the prior leaderboard.json, users.
Load ==
  /\ pc = "idle"
  /\ run < MaxRuns
  /\ build = Repaired
  /\ run' = run + 1
  /\ pc' = "resolve"
  /\ cache' = load_cache(cache_file)
  /\ users' = UsersMap(load_prev(output_file), <<>>)
  /\ exit' = "running"
  /\ wrote' = [cache |-> FALSE, out |-> FALSE]
  /\ now' = now + 1
  /\ quiet' = [prev |-> exit = "done" /\ quiet.cur, cur |-> TRUE]
  /\ snap' = [cache |-> cache_file, out |-> output_file]
  /\ UNCHANGED <<repos_map, first_keys, seen_shas, seen_issues, repo, done, page, since>>
  /\ UNCHANGED <<cfg, cache_file, output_file, org_api, remote_commits, remote_issues>>
  /\ ev' = NoEvent
  /\ intr' = NoInterrupt
  /\ res' = NoResolve
  /\ fetched' = <<>>
  /\ UNCHANGED pushes
  /\ UNCHANGED <<tvars, build>>

\* Lines 291-292 and 131-168: get_repos_list(cache) as far as
\* expand(official), which reads the clock (149). An exception of safe_get
\* leaves main.
ResolveOfficial ==
  /\ pc = "resolve"
  /\ \E o1 \in Orders(NormalizedSet(cfg.official)) :
       LET eo == expand(o1, cache.orgs, <<>>, {}, now, org_api) IN
       /\ res' = [calls |-> eo.calls, warned |-> eo.warned, raised |-> eo.raised,
                  before |-> cache.orgs, after |-> eo.orgs, second |-> {},
                  t1 |-> now, t2 |-> 0]
       /\ IF eo.raised
          THEN ProcEnd("exception")
          ELSE /\ pc' = "resolve2"
               /\ first_keys' = eo.out
               /\ cache' = [cache EXCEPT !.orgs = eo.orgs]
               /\ UNCHANGED <<users, repos_map, seen_shas, seen_issues, repo, done,
                              page, since, exit>>
  /\ UNCHANGED <<run, ev, intr, wrote, pushes, quiet, snap, fetched>>
  /\ UNCHANGED fvars
  /\ UNCHANGED <<tvars, build>>

\* Time passes between the two calls of expand.
ClockTick ==
  /\ pc = "resolve2"
  /\ now - res.t1 < MaxTicks
  /\ now' = now + 1
  /\ UNCHANGED <<cfg, cache_file, output_file, org_api, remote_commits, remote_issues>>
  /\ UNCHANGED <<mvars, hvars>>
  /\ UNCHANGED <<tvars, build>>

\* Lines 169-170 and 293-297: expand(unofficial), which reads the clock
\* again, and the merged mapping; then seen_shas, seen_issues and repo_state.
ResolveUnofficial ==
  /\ pc = "resolve2"
  /\ \E o2 \in Orders(NormalizedSet(cfg.unofficial)) :
       LET eu == expand(o2, cache.orgs, res.calls, res.warned, now, org_api) IN
       /\ res' = [res EXCEPT !.calls = eu.calls, !.warned = eu.warned,
                             !.raised = eu.raised, !.after = eu.orgs,
                             !.second = eu.out, !.t2 = now]
       /\ IF eu.raised
          THEN ProcEnd("exception")
          ELSE /\ pc' = "next"
               /\ repos_map' = MergeResult(first_keys, eu.out)
               /\ cache' = [cache EXCEPT !.orgs = eu.orgs]
               /\ seen_shas' = cache.commits
               /\ seen_issues' = cache.issues
               /\ UNCHANGED <<users, first_keys, repo, done, page, since, exit>>
  /\ UNCHANGED <<run, ev, intr, wrote, pushes, quiet, snap, fetched>>
  /\ UNCHANGED fvars
  /\ UNCHANGED <<tvars, build>>

\* Lines 299-301 and 175-179: the next repository of repos_map (the keys of
\* expand(official) come first), its state, and the commit feed's cursor;
\* after the last one, the saving. repo.split("/") into owner and name raises
\* unless there are exactly two parts.
NextRepo ==
  /\ pc = "next"
  /\ IF done = DOMAIN repos_map
     THEN /\ pc' = "save"
          /\ UNCHANGED <<cache, users, repos_map, first_keys, seen_shas,
                         seen_issues, repo, done, page, since, exit>>
     ELSE \E rp \in DOMAIN repos_map \ done :
            /\ rp \in first_keys \/ (first_keys \cap DOMAIN repos_map) \subseteq done
            /\ IF Len(Split(rp)) # 2
               THEN ProcEnd("exception")
               ELSE LET st == GetOr(cache.repos, rp, EmptyDict) IN
                    /\ pc' = "commits"
                    /\ repo' = rp
                    /\ cache' = [cache EXCEPT !.repos = Put(@, rp, st)]
                    /\ page' = GetOr(st, "c_page", 1)
                    /\ since' = Get(st, "c_since")
                    /\ UNCHANGED <<users, repos_map, first_keys, seen_shas,
                                   seen_issues, done, exit>>
  /\ UNCHANGED <<run, res, ev, intr, wrote, pushes, quiet, snap, fetched>>
  /\ UNCHANGED fvars
  /\ UNCHANGED <<tvars, build>>

\* The list the commits endpoint holds for this request.
CommitData == RemotePage(remote_commits[repo], page, since)
ItemData == RemotePage(remote_issues[repo], page, since)

\* How a response that is not a 200 list ends a page request: safe_get raises
\* on a 403 (51-52) and on a Retry-After that int() rejects (47, 53);
\* resp.json() raises on a body that is not JSON (189, 241); iterating a JSON
\* object yields its keys, and c.get / it.get on a string raises (195, 247).
FailureOf(resp) ==
  IF IsForbidden(resp) THEN "forbidden"
  ELSE IF Is429(resp) \/ IsSecondary403(resp) THEN "badheader"
  ELSE IF ~resp.json THEN "nonjson" ELSE "errbody"
\* The ways a page request fails: those of the final responses other than
\* the 200 list.
FailureKinds == {FailureOf(x) : x \in {y \in FinalResponses : y.status # 200}}

\* Lines 181-219, a page with commits: each new one is yielded and
\* aggregated, then page += 1.
CommitsPage ==
  /\ pc = "commits"
  /\ CommitData # <<>>
  /\ LET st == CommitsOfPage(CommitData, repo, repos_map[repo],
                 [seen |-> seen_shas, users |-> users, yielded |-> <<>>])
     IN /\ seen_shas' = st.seen
        /\ users' = st.users
        /\ fetched' = fetched \o st.yielded
        /\ ev' = Request("commits", "page", st.yielded)
  /\ page' = page + 1
  /\ UNCHANGED <<pc, cache, repos_map, first_keys, seen_issues, repo, done, since>>
  /\ UNCHANGED <<run, exit, res, intr, wrote, pushes, quiet, snap>>
  /\ UNCHANGED <<cfg, cache_file, output_file, org_api, remote_commits, remote_issues, now>>
  /\ UNCHANGED <<tvars, build>>

\* Lines 185-192: the request is answered by an empty page and the loop is
\* left. The clock is read later, at 222.
CommitsEmptyPage ==
  /\ pc = "commits"
  /\ CommitData = <<>>
  /\ pc' = "commits_end"
  /\ ev' = Request("commits", "empty", <<>>)
  /\ UNCHANGED <<cache, users, repos_map, first_keys, seen_shas, seen_issues, repo,
                 done, page, since>>
  /\ UNCHANGED <<run, exit, res, intr, wrote, pushes, quiet, snap, fetched>>
  /\ UNCHANGED <<cfg, cache_file, output_file, org_api, remote_commits, remote_issues, now>>
  /\ UNCHANGED <<tvars, build>>

\* Lines 221-222, then 227-231: after the loop the cursor is reset with the
\* clock as it now reads, and fetch_items starts from its own cursor.
CommitsDrained ==
  /\ pc = "commits_end"
  /\ LET st == Put(Put(cache.repos[repo], "c_page", 1), "c_since", utc_now(now))
     IN /\ cache' = [cache EXCEPT !.repos[repo] = st]
        /\ page' = GetOr(st, "i_page", 1)
        /\ since' = Get(st, "i_since")
  /\ pc' = "issues"
  /\ UNCHANGED <<users, repos_map, first_keys, seen_shas, seen_issues, repo, done>>
  /\ UNCHANGED <<run, exit, res, ev, intr, wrote, pushes, quiet, snap, fetched>>
  /\ UNCHANGED <<cfg, cache_file, output_file, org_api, remote_commits, remote_issues, now>>
  /\ UNCHANGED <<tvars, build>>

\* A failed page request taken for the end of the feed: the cursor is written
\* as after an empty page and the run goes on.
FeedFails_AsExhaustion ==
  /\ pc \in {"commits", "issues"}
  /\ \E kind \in FailureKinds : ev' = Request(pc, kind, <<>>)
  /\ intr' = [run |-> run, repo |-> repo, feed |-> pc, page |-> page]
  /\ IF pc = "commits"
     THEN LET st == Put(Put(cache.repos[repo], "c_page", 1), "c_since", utc_now(now))
          IN /\ cache' = [cache EXCEPT !.repos[repo] = st]
             /\ page' = GetOr(st, "i_page", 1)
             /\ since' = Get(st, "i_since")
             /\ pc' = "issues"
             /\ UNCHANGED done
     ELSE /\ cache' = [cache EXCEPT !.repos[repo] =
                         Put(Put(@, "i_page", 1), "i_since", utc_now(now))]
          /\ pc' = "next"
          /\ done' = done \cup {repo}
          /\ UNCHANGED <<page, since>>
  /\ UNCHANGED <<users, repos_map, first_keys, seen_shas, seen_issues, repo>>
  /\ UNCHANGED <<run, exit, res, wrote, pushes, quiet, snap, fetched>>
  /\ UNCHANGED <<cfg, cache_file, output_file, org_api, remote_commits, remote_issues, now>>
  /\ UNCHANGED <<tvars, build>>

\* A page request of either feed that ends in an exception: nothing in
\* fetch_commits, fetch_items or main catches it, so it leaves main.
FeedFails ==
  /\ pc \in {"commits", "issues"}
  /\ \E kind \in FailureKinds : ev' = Request(pc, kind, <<>>)
  /\ intr' = [run |-> run, repo |-> repo, feed |-> pc, page |-> page]
  /\ ProcEnd("exception")
  /\ fetched' = <<>>
  /\ UNCHANGED <<run, res, wrote, pushes, quiet, snap>>
  /\ UNCHANGED <<cfg, cache_file, output_file, org_api, remote_commits, remote_issues, now>>
  /\ UNCHANGED <<tvars, build>>

\* Lines 194-201: the detail request of a commit not seen before raises,
\* after the commits listed before it on the page were yielded (216).
DetailFails ==
  /\ pc = "commits"
  /\ \E i \in DOMAIN CommitData :
       LET st == CommitsOfPage(SubSeq(CommitData, 1, i - 1), repo, repos_map[repo],
                   [seen |-> seen_shas, users |-> users, yielded |-> <<>>])
       IN /\ ~Falsy(CommitData[i].sha)
          /\ CommitData[i].sha \notin st.seen
          /\ ev' = Request("commits", "detail", st.yielded)
  /\ intr' = [run |-> run, repo |-> repo, feed |-> pc, page |-> page]
  /\ ProcEnd("exception")
  /\ fetched' = <<>>
  /\ UNCHANGED <<run, res, wrote, pushes, quiet, snap>>
  /\ UNCHANGED <<cfg, cache_file, output_file, org_api, remote_commits, remote_issues, now>>
  /\ UNCHANGED <<tvars, build>>

\* Lines 233-267, a page with issues and pull requests: each new one is
\* yielded and aggregated, then page += 1; an item with "user": null ends
\* main with AttributeError.
ItemsPage ==
  /\ pc = "issues"
  /\ ItemData # <<>>
  /\ LET st == ItemsOfPage(ItemData, repo, repos_map[repo],
                 [raised |-> FALSE, seen |-> seen_issues, users |-> users,
                  yielded |-> <<>>])
     IN IF st.raised
        THEN /\ ev' = Request("issues", "usernull", st.yielded)
             /\ intr' = [run |-> run, repo |-> repo, feed |-> pc, page |-> page]
             /\ ProcEnd("exception")
             /\ fetched' = <<>>
        ELSE /\ seen_issues' = st.seen
             /\ users' = st.users
             /\ fetched' = fetched \o st.yielded
             /\ ev' = Request("issues", "page", st.yielded)
             /\ page' = page + 1
             /\ UNCHANGED <<pc, cache, repos_map, first_keys, seen_shas, repo, done,
                            since, exit, intr>>
  /\ UNCHANGED <<run, res, wrote, pushes, quiet, snap>>
  /\ UNCHANGED <<cfg, cache_file, output_file, org_api, remote_commits, remote_issues, now>>
  /\ UNCHANGED <<tvars, build>>

\* Lines 237-244: the request is answered by an empty page and the loop is
\* left. The clock is read later, at 270.
ItemsEmptyPage ==
  /\ pc = "issues"
  /\ ItemData = <<>>
  /\ pc' = "issues_end"
  /\ ev' = Request("issues", "empty", <<>>)
  /\ UNCHANGED <<cache, users, repos_map, first_keys, seen_shas, seen_issues, repo,
                 done, page, since>>
  /\ UNCHANGED <<run, exit, res, intr, wrote, pushes, quiet, snap, fetched>>
  /\ UNCHANGED <<cfg, cache_file, output_file, org_api, remote_commits, remote_issues, now>>
  /\ UNCHANGED <<tvars, build>>

\* Lines 269-270, then 316: after the loop the cursor is reset with the clock
\* as it now reads, and the repository is done.
ItemsDrained ==
  /\ pc = "issues_end"
  /\ cache' = [cache EXCEPT !.repos[repo] =
                 Put(Put(@, "i_page", 1), "i_since", utc_now(now))]
  /\ pc' = "next"
  /\ done' = done \cup {repo}
  /\ UNCHANGED <<users, repos_map, first_keys, seen_shas, seen_issues, repo, page, since>>
  /\ UNCHANGED <<run, exit, res, ev, intr, wrote, pushes, quiet, snap, fetched>>
  /\ UNCHANGED <<cfg, cache_file, output_file, org_api, remote_commits, remote_issues, now>>
  /\ UNCHANGED <<tvars, build>>

\* The document with only the keys this run added.
CacheToSave_OnlyNew ==
  [cache EXCEPT !.commits = seen_shas \ cache.commits,
                !.issues = seen_issues \ cache.issues]
\* The cache document main saves (319-320).
CacheToSave == [cache EXCEPT !.commits = seen_shas, !.issues = seen_issues]

\* Lines 319-321: save_cache writes the whole document.
SaveCache ==
  /\ pc = "save"
  /\ cache_file' = ValidFile(CacheToSave)
  /\ cache' = CacheToSave
  /\ wrote' = [wrote EXCEPT !.cache = TRUE]
  /\ pc' = "write"
  /\ UNCHANGED <<users, repos_map, first_keys, seen_shas, seen_issues, repo, done,
                 page, since>>
  /\ UNCHANGED <<run, exit, res, ev, intr, pushes, quiet, snap, fetched>>
  /\ UNCHANGED <<cfg, output_file, org_api, remote_commits, remote_issues, now>>
  /\ UNCHANGED <<tvars, build>>

\* out = {"users": list(users.values())} (324)
OutputOf(us) == ValidOutput(us)

\* Lines 324-326: leaderboard.json is written and closed.
WriteOutput ==
  /\ pc = "write"
  /\ output_file' = OutputOf(users)
  /\ wrote' = [wrote EXCEPT !.out = TRUE]
  /\ pc' = "log"
  /\ UNCHANGED <<cache, users, repos_map, first_keys, seen_shas, seen_issues, repo,
                 done, page, since>>
  /\ UNCHANGED <<run, exit, res, ev, intr, pushes, quiet, snap, fetched>>
  /\ UNCHANGED <<cfg, cache_file, org_api, remote_commits, remote_issues, now>>
  /\ UNCHANGED <<tvars, build>>

\* Lines 328-331 of the repaired text (no statement of the committed text
\* runs, see SyntaxErrorAt328): the last log line, and main returns.
MainReturns ==
  /\ pc = "log"
  /\ ProcEnd("done")
  /\ UNCHANGED <<run, res, ev, intr, wrote, pushes, quiet, snap, fetched>>
  /\ UNCHANGED fvars
  /\ UNCHANGED <<tvars, build>>

\* The process is killed. Inside open(..., "w") + json.dump the file is left
\* truncated: cache.json at 100-101, leaderboard.json at 325-326.
Kill ==
  /\ pc \in {"resolve", "resolve2", "next", "commits", "commits_end", "issues", "issues_end",
            "save", "write", "log"}
  /\ \E torn \in BOOLEAN :
       /\ cache_file' = IF torn /\ pc = "save" THEN BrokenFile ELSE cache_file
       /\ output_file' = IF torn /\ pc = "write" THEN BrokenOutput ELSE output_file
  /\ intr' = IF pc \in {"commits", "issues"}
             THEN [run |-> run, repo |-> repo, feed |-> pc, page |-> page]
             ELSE intr
  /\ ProcEnd("killed")
  /\ fetched' = <<>>
  /\ UNCHANGED <<run, res, ev, wrote, pushes, quiet, snap>>
  /\ UNCHANGED <<cfg, org_api, remote_commits, remote_issues, now>>
  /\ UNCHANGED <<tvars, build>>

\* Between runs cache.json is lost (a fresh checkout, an evicted CI cache).
CacheLost ==
  /\ pc = "idle"
  /\ run < MaxRuns
  /\ cache_file.state = "valid"
  /\ cache_file' = NoFile
  /\ quiet' = [prev |-> FALSE, cur |-> FALSE]
  /\ UNCHANGED <<cfg, output_file, org_api, remote_commits, remote_issues, now>>
  /\ UNCHANGED <<run, exit, res, ev, intr, wrote, pushes, snap, fetched>>
  /\ UNCHANGED mvars
  /\ UNCHANGED <<tvars, build>>

\* A commit appears on the remote, newest first. Nothing is pushed once the
\* last run has ended.
PushCommit ==
  /\ pushes < MaxPush
  /\ pc # "idle" \/ run < MaxRuns
  /\ \E rp \in MainRepos : \E c \in CommitPool(rp, now) :
       /\ \A i \in DOMAIN remote_commits[rp] : remote_commits[rp][i].sha # c.sha
       /\ remote_commits' = [remote_commits EXCEPT ![rp] = <<c>> \o @]
  /\ pushes' = pushes + 1
  /\ now' = now + 1
  /\ quiet' = [prev |-> FALSE, cur |-> FALSE]
  /\ UNCHANGED <<cfg, cache_file, output_file, org_api, remote_issues>>
  /\ UNCHANGED <<run, exit, res, ev, intr, wrote, snap, fetched>>
  /\ UNCHANGED mvars
  /\ UNCHANGED <<tvars, build>>

\* An issue or a pull request appears on the remote, newest first.
PushIssue ==
  /\ pushes < MaxPush
  /\ pc # "idle" \/ run < MaxRuns
  /\ \E rp \in MainRepos : \E it \in IssuePool(rp, now) :
       /\ \A i \in DOMAIN remote_issues[rp] : remote_issues[rp][i].number # it.number
       /\ remote_issues' = [remote_issues EXCEPT ![rp] = <<it>> \o @]
  /\ pushes' = pushes + 1
  /\ now' = now + 1
  /\ quiet' = [prev |-> FALSE, cur |-> FALSE]
  /\ UNCHANGED <<cfg, cache_file, output_file, org_api, remote_commits>>
  /\ UNCHANGED <<run, exit, res, ev, intr, wrote, snap, fetched>>
  /\ UNCHANGED mvars
  /\ UNCHANGED <<tvars, build>>

\* ------------------------------------------------------- the specifications
HInit ==
  /\ exit = "none"
  /\ res = NoResolve
  /\ ev = NoEvent
  /\ intr = NoInterrupt
  /\ wrote = [cache |-> FALSE, out |-> FALSE]
  /\ pushes = 0
  /\ quiet = [prev |-> FALSE, cur |-> FALSE]
  /\ snap = [cache |-> NoFile, out |-> NoOutput]
  /\ fetched = <<>>

OneOrgApi == [o \in {OwnerO} |-> <<[status |-> 200, block |-> <<<<"a">>, <<"b">>>>]>>]

\* Runs of main(): nothing on disk, the remote as it first is, and either
\* text of the file.
Init ==
  /\ TInit
  /\ HInit
  /\ ProcIdle
  /\ build \in Builds
  /\ run = 0
  /\ cfg = MainCfg
  /\ cache_file = NoFile
  /\ output_file = NoOutput
  /\ org_api = OneOrgApi
  /\ remote_commits = InitialCommits
  /\ remote_issues = InitialIssues
  /\ now = 0

Next ==
  \/ SyntaxErrorAt328
  \/ Load
  \/ ResolveOfficial
  \/ ResolveUnofficial
  \/ NextRepo
  \/ CommitsPage
  \/ CommitsEmptyPage
  \/ CommitsDrained
  \/ DetailFails
  \/ FeedFails
  \/ ItemsPage
  \/ ItemsEmptyPage
  \/ ItemsDrained
  \/ SaveCache
  \/ WriteOutput
  \/ MainReturns
  \/ Kill
  \/ CacheLost
  \/ PushCommit
  \/ PushIssue

Spec == Init /\ [][Next]_vars

\* One call of safe_get, its definition taken from the repaired text (the
\* committed text cannot be imported).
InitGet ==
  /\ TInit
  /\ build = Repaired
  /\ HInit
  /\ ProcIdle
  /\ run = 0
  /\ cfg = MainCfg
  /\ cache_file = NoFile
  /\ output_file = NoOutput
  /\ org_api = OneOrgApi
  /\ remote_commits = InitialCommits
  /\ remote_issues = InitialIssues
  /\ now = 0
NextGet == SafeGetStep
SpecGet == InitGet /\ [][NextGet]_vars

\* get_repos_list on bounded inputs: the entries ton_repos.json may list,
\* the snapshot cache["orgs"] may hold, and the listing the remote serves.
OrgUrl == <<HttpsHost, Slash>> \o OwnerO \o <<Slash>>
RepoAUrl == <<HttpsHost, Slash>> \o RepoA \o <<DotGit>>
Entries ==
  { OwnerO,
    RepoA,
    RepoAUrl,
    <<Space>> \o RepoB \o <<Space>>,
    RepoA \o <<Slash, "b">>,
    OwnerO \o <<Slash>>,
    OrgUrl,
    <<Space>> }
Configs ==
  {c \in [official : SUBSET Entries, unofficial : SUBSET Entries] :
     Cardinality(c.official) + Cardinality(c.unofficial) <= MaxEntries}

RepoC == RepoName(OwnerO, <<"c">>)
\* A name of three parts in a snapshot of cache.json (expand takes the names
\* of a snapshot as they are, 161).
BadName == RepoC \o <<Slash, "d">>
SnapshotAges == {3600, ORG_TTL, ORG_TTL + 1}
OrgCaches ==
  {EmptyDict} \cup
  {[o \in {OwnerO} |-> [repos |-> <<RepoA, RepoC>>, ts |-> Now0 - age]] :
     age \in SnapshotAges} \cup
  {[o \in {OwnerO} |-> [repos |-> rs, ts |-> Now0 - 3600]] :
     rs \in {<<>>, <<BadName>>}}
OrgApis ==
  {[o \in {OwnerO} |-> pages] :
     pages \in { <<[status |-> 200, block |-> <<<<"a">>, <<"b">>>>]>>,
                 <<[status |-> 200, block |-> <<<<"a">>>>],
                   [status |-> 200, block |-> <<<<"c">>>>]>>,
                 <<[status |-> 200, block |-> <<<<"a">>>>],
                   [status |-> 500, block |-> <<>>]>>,
                 <<[status |-> 404, block |-> <<>>]>>,
                 <<[status |-> 403, block |-> <<>>]>> }}

InitRepos ==
  /\ TInit
  /\ build = Repaired
  /\ HInit
  /\ run = 1
  /\ pc = "resolve"
  /\ cfg \in Configs
  /\ \E o \in OrgCaches : cache = [EMPTY_CACHE EXCEPT !.orgs = o]
  /\ org_api \in OrgApis
  /\ now = Now0
  /\ users = <<>>
  /\ repos_map = EmptyDict
  /\ first_keys = {}
  /\ seen_shas = {}
  /\ seen_issues = {}
  /\ repo = <<>>
  /\ done = {}
  /\ page = 1
  /\ since = <<>>
  /\ cache_file = NoFile
  /\ output_file = NoOutput
  /\ remote_commits = InitialCommits
  /\ remote_issues = InitialIssues
\* The resolution, with the clock moving between its two calls of expand,
\* and main's first step with its outcome (299-301, 175).
NextRepos == ResolveOfficial \/ ClockTick \/ ResolveUnofficial \/ NextRepo
SpecRepos == InitRepos /\ [][NextRepos]_vars

\* ================================================================ the claims
\* The places of a document's records: <<user index, index in the list>>.
RecordPlaces(us, col) ==
  UNION {{<<i, k>> : k \in DOMAIN (CASE col = "commits" -> us[i].commits
                                     [] col = "issues" -> us[i].issues
                                     [] OTHER -> us[i].pull_requests)} :
         i \in DOMAIN us}
CommitAt(us, pl) == us[pl[1]].commits[pl[2]]
ActivityPlaces(us) ==
  {<<"issues", pl>> : pl \in RecordPlaces(us, "issues")} \cup
  {<<"pull_requests", pl>> : pl \in RecordPlaces(us, "pull_requests")}
ActivityAt(us, a) ==
  IF a[1] = "issues" THEN us[a[2][1]].issues[a[2][2]]
  ELSE us[a[2][1]].pull_requests[a[2][2]]

\* C1 (as claimed): whatever cache.json and leaderboard.json a run starts
\* from, every commit hash and every issue key repo#number has at most one
\* activity record among the users of leaderboard.json.
C1_NoDoubleCounting ==
  /\ \A p1, p2 \in RecordPlaces(output_file.users, "commits") :
       CommitAt(output_file.users, p1).sha = CommitAt(output_file.users, p2).sha
         => p1 = p2
  /\ \A a1, a2 \in ActivityPlaces(output_file.users) :
       ( /\ ActivityAt(output_file.users, a1).repo = ActivityAt(output_file.users, a2).repo
         /\ ActivityAt(output_file.users, a1).number = ActivityAt(output_file.users, a2).number )
         => a1 = a2

\* The page the next run's first request of a feed asks for, given cache.json.
PersistedPage(f, rp, feed) ==
  GetOr(GetOr(load_cache(f).repos, rp, EmptyDict),
        IF feed = "commits" THEN "c_page" ELSE "i_page", 1)

\* C2 (as claimed): when a feed was interrupted while requesting page N > 1,
\* the cursor persisted for that feed holds N, which is the page the next
\* run's first request of that feed asks for.
C2_ResumesAtInterruptedPage ==
  (pc = "idle" /\ intr.page > 1)
    => PersistedPage(cache_file, intr.repo, intr.feed) = intr.page

\* C3 (as claimed): a run in which safe_get failed a feed's request with a
\* permission error still ends having written cache.json and
\* leaderboard.json.
C3_RunCompletesAfter403 ==
  (pc = "idle" /\ ev.run = run /\ ev.kind = "forbidden")
    => (wrote.cache /\ wrote.out)

\* C4 (as claimed): a page request answered by a non-success response with a
\* JSON error body emits no record and raises no error: the run goes on.
C4_ErrorBodyIsTransientStop ==
  (ev.run = run /\ ev.kind = "errbody")
    => (ev.yielded = <<>> /\ exit # "exception")

\* The throttling signals the claims name: 429, or a 403 whose message
\* indicates a rate limit or a secondary rate limit.
IndicatesRateLimit(resp) ==
  resp.json /\ resp.message \in {SecondaryMessage, PrimaryMessage}
IsThrottlingSignal(resp) ==
  resp.status = 429 \/ (resp.status = 403 /\ IndicatesRateLimit(resp))

\* C5 (as claimed): after a 429, or a 403 whose message indicates a rate
\* limit or a secondary rate limit, safe_get has not failed the call: it is
\* still in its loop, about to repeat the request.
C5_ThrottlingNeverSurfaces ==
  (n_req > 0 /\ IsThrottlingSignal(r)) => sg_pc = "loop"

\* C6 (as claimed): each throttling response of the sequence is followed by
\* another request, the response that is not a throttling signal is returned,
\* and no wait exceeds the ceiling of 60.
C6_ReturnsWithinCeiling ==
  /\ (n_req > 0 /\ IsThrottlingSignal(r)) => sg_pc = "loop"
  /\ (n_req > 0 /\ ~IsThrottlingSignal(r)) => sg_pc = "returned"
  /\ retry <= BackoffCeiling

\* C7 (as claimed): every repository both configured sets resolve to is
\* marked official in the mapping get_repos_list returns.
C7_OfficialWins ==
  (pc = "next" /\ ~res.raised)
    => \A rp \in first_keys \cap res.second : repos_map[rp] = TRUE

\* The organizations a configuration asks to resolve, and the expansion calls
\* made for one of them.
ResolvedOrgs ==
  {x \in NormalizedSet(cfg.official) \cup NormalizedSet(cfg.unofficial) :
     Len(Split(x)) = 1}
CallsFor(x) == Cardinality({i \in DOMAIN res.calls : res.calls[i] = x})
HadSnapshot(x) == x \in DOMAIN res.before
\* The clock readings at which expand examined the entry x: t1 when x is in
\* the official set, t2 when it is in the unofficial set and
\* expand(unofficial) was reached.
Readings(x) ==
  {res.t1 : y \in {z \in NormalizedSet(cfg.official) : z = x}} \cup
  {res.t2 : y \in {z \in NormalizedSet(cfg.unofficial) : z = x /\ res.t2 # 0}}
WasOlderThanTTL(x) ==
  HadSnapshot(x) /\ \E t \in Readings(x) : t - res.before[x].ts > ORG_TTL
\* get_repos_list has returned and main holds its mapping, or it has raised.
Resolved == pc = "next" \/ (pc = "idle" /\ res.raised)

\* C8 (as claimed): an organization is expanded exactly when the cache held
\* no snapshot of it or one older than the TTL; a younger snapshot, whatever
\* its list, is reused with no expansion call and left unchanged.
C8_ExpandsIffAbsentOrOld ==
  Resolved =>
    \A x \in ResolvedOrgs :
      /\ CallsFor(x) > 0 <=> (~HadSnapshot(x) \/ WasOlderThanTTL(x))
      /\ (HadSnapshot(x) /\ ~WasOlderThanTTL(x))
           => (CallsFor(x) = 0 /\ res.after[x] = res.before[x])

\* C8 (amended): an organization is expanded exactly when the cache held no
\* snapshot of it, a snapshot with an empty list, or one older than the TTL;
\* a younger snapshot with a non-empty list is reused verbatim (its
\* repositories are in the mapping) with no expansion call and left unchanged.
C8_ExpandsIffAbsentEmptyOrOld ==
  Resolved =>
    \A x \in ResolvedOrgs :
      LET empty == HadSnapshot(x) /\ res.before[x].repos = <<>> IN
      /\ CallsFor(x) > 0 <=> (~HadSnapshot(x) \/ empty \/ WasOlderThanTTL(x))
      /\ (HadSnapshot(x) /\ ~empty /\ ~WasOlderThanTTL(x))
           => /\ CallsFor(x) = 0
              /\ res.after[x] = res.before[x]
              /\ ~res.raised => SeqToSet(res.before[x].repos) \subseteq DOMAIN repos_map

\* C8's case: a snapshot exactly as old as the TTL, with repositories, was
\* reused without a call.
C8_Witness ==
  /\ pc = "next"
  /\ \E x \in ResolvedOrgs :
       /\ HadSnapshot(x)
       /\ Readings(x) # {}
       /\ \A t \in Readings(x) : t - res.before[x].ts = ORG_TTL
       /\ res.before[x].repos # <<>>
       /\ CallsFor(x) = 0
       /\ SeqToSet(res.before[x].repos) \subseteq DOMAIN repos_map

\* The records the run's feeds yielded for one contributor and one list.
FetchedFor(login, col) ==
  LET sel == SelectSeq(fetched, LAMBDA y : y.author = login /\ y.col = col)
  IN [i \in 1..Len(sel) |-> sel[i].rec]
RunDone == pc = "idle" /\ exit = "done"

\* C9: when a run has written leaderboard.json, every contributor of the
\* document it started from is in it, each of the three lists being the prior
\* list followed by the records fetched for that contributor in this run.
C9_UnionMerge ==
  RunDone =>
    \A i \in DOMAIN snap.out.users :
      LET u == snap.out.users[i]
          j == UserIndex(output_file.users, u.login)
      IN /\ j # 0
         /\ output_file.users[j].commits = u.commits \o FetchedFor(u.login, "commits")
         /\ output_file.users[j].issues = u.issues \o FetchedFor(u.login, "issues")
         /\ output_file.users[j].pull_requests =
              u.pull_requests \o FetchedFor(u.login, "pull_requests")

\* C9's case: a contributor with prior commits gained a commit in this run,
\* and another prior contributor gained nothing.
C9_Witness ==
  /\ RunDone
  /\ \E i \in DOMAIN snap.out.users :
       /\ snap.out.users[i].commits # <<>>
       /\ FetchedFor(snap.out.users[i].login, "commits") # <<>>
  /\ \E i \in DOMAIN snap.out.users :
       /\ FetchedFor(snap.out.users[i].login, "commits") = <<>>
       /\ FetchedFor(snap.out.users[i].login, "issues") = <<>>
       /\ FetchedFor(snap.out.users[i].login, "pull_requests") = <<>>

\* A run that followed a completed run, with nothing new on the remote and
\* the files untouched since that run began.
SecondQuietRunDone == RunDone /\ quiet.prev /\ quiet.cur

\* C10: such a second run leaves the commit keys, the issue keys, every
\* cursor's page and leaderboard.json as the first run left them; only the
\* cursors' since values may move, and only forward.
C10_Idempotent ==
  SecondQuietRunDone =>
    /\ cache_file.state = "valid" /\ snap.cache.state = "valid"
    /\ cache_file.data.commits = snap.cache.data.commits
    /\ cache_file.data.issues = snap.cache.data.issues
    /\ DOMAIN cache_file.data.repos = DOMAIN snap.cache.data.repos
    /\ \A rp \in DOMAIN cache_file.data.repos :
         LET a == snap.cache.data.repos[rp]
             b == cache_file.data.repos[rp]
         IN /\ DOMAIN a = DOMAIN b
            /\ \A k \in {"c_page", "i_page"} \cap DOMAIN a : b[k] = a[k]
            /\ \A k \in {"c_since", "i_since"} \cap DOMAIN a : b[k] >= a[k]
    /\ output_file = snap.out

\* C10's case: the second run was served a commit again (the remote still
\* lists it under its since) and recorded nothing new.
C10_Witness ==
  /\ SecondQuietRunDone
  /\ cache_file.data.commits # {}
  /\ output_file.users # <<>>
  /\ \E rp \in MainRepos :
       /\ rp \in DOMAIN snap.cache.data.repos
       /\ Visible(remote_commits[rp], Get(snap.cache.data.repos[rp], "c_since")) # <<>>


\* C11 (as claimed): every key of the mapping get_repos_list returns has
\* exactly two path segments, both non-empty: an entry such as `owner/` or
\* `/name` is rejected and is not among the repositories main goes on to fetch.
C11_KeysHaveTwoSegments ==
  pc = "next" =>
    \A rp \in DOMAIN repos_map :
      /\ Len(Split(rp)) = 2
      /\ Split(rp)[1] # <<>>
      /\ Split(rp)[2] # <<>>

\* The configured entries that normalize to three path segments or more, and
\* the configuration without them.
Malformed(entries) == {y \in entries : Len(Split(normalize(y))) >= 3}
WithoutMalformed ==
  [official |-> cfg.official \ Malformed(cfg.official),
   unofficial |-> cfg.unofficial \ Malformed(cfg.unofficial)]

CountIn(q, x) == Cardinality({i \in DOMAIN q : q[i] = x})

\* C12: whether the resolution fails is what it is for the same configuration
\* without its entries of three path segments or more, in whatever order the
\* sets are visited; and when it returns, each such entry has been warned
\* about and is no key of the result, and the mapping, the snapshots stored
\* and the expansion calls made for each organization are those of the
\* resolution without them.
C12_MalformedEntryTolerated ==
  Resolved =>
    \A g \in get_repos_list(WithoutMalformed, res.before, res.t1,
                             IF res.t2 = 0 THEN res.t1 ELSE res.t2, org_api) :
    /\ res.raised = g.raised
    /\ ~res.raised =>
         /\ repos_map = g.result
         /\ res.after = g.orgs
         /\ \A x \in ResolvedOrgs : CallsFor(x) = CountIn(g.calls, x)
         /\ \A y \in Malformed(cfg.official \cup cfg.unofficial) :
              /\ normalize(y) \in res.warned
              /\ normalize(y) \notin DOMAIN repos_map

\* C12's case: a three-segment entry was dropped next to an organization that
\* was expanded by a call and a literal repository that was kept.
C12_Witness ==
  /\ pc = "next"
  /\ Malformed(cfg.official \cup cfg.unofficial) # {}
  /\ res.warned # {}
  /\ res.calls # <<>>
  /\ RepoB \in DOMAIN repos_map


\* The key sets a run reads from cache.json.
PersistedCommits(f) == load_cache(f).commits
PersistedIssues(f) == load_cache(f).issues

\* C13: a completed save_cache leaves in cache.json a superset of the commit
\* keys and of the issue keys that could be read from the file before it
\* (none, when the file was missing or corrupt); the run's seen_shas and
\* seen_issues start as the sets read from the file and lose no key while the
\* process lives.
C13_SeenKeysNeverShrink ==
  [][ /\ (pc = "save" /\ pc' = "write")
           => /\ PersistedCommits(cache_file) \subseteq PersistedCommits(cache_file')
              /\ PersistedIssues(cache_file) \subseteq PersistedIssues(cache_file')
      /\ (pc = "resolve2" /\ pc' = "next")
           => /\ seen_shas' = PersistedCommits(cache_file)
              /\ seen_issues' = PersistedIssues(cache_file)
      /\ (pc \notin {"idle", "resolve"} /\ pc' # "idle")
           => /\ seen_shas \subseteq seen_shas'
              /\ seen_issues \subseteq seen_issues' ]_vars

\* C13's case: a run that started from a cache with commit keys has saved a
\* strictly larger set.
C13_Witness ==
  /\ pc = "write"
  /\ snap.cache.state = "valid"
  /\ snap.cache.data.commits # {}
  /\ snap.cache.data.commits \subseteq cache_file.data.commits
  /\ snap.cache.data.commits # cache_file.data.commits


\* The since value the next run's first request of a feed passes, given
\* cache.json, and the feed whose request was the last one interrupted.
Feeds == {"commits", "issues"}
PersistedSince(f, rp, feed) ==
  Get(GetOr(load_cache(f).repos, rp, EmptyDict),
      IF feed = "commits" THEN "c_since" ELSE "i_since")
Interrupted(rp, feed) == intr.run = run /\ intr.repo = rp /\ intr.feed = feed

\* C14: a step that changes a feed's persisted cursor belongs to a run in
\* which that feed received an empty page (its repository is done and the
\* feed was not interrupted), and it leaves page = 1 and a since that is a
\* clock reading of the run; a step that ends a run inside a feed, by an
\* exception or a kill, leaves that feed's persisted page and since as the
\* run found them.
C14_WriteBackOnlyOnEmptyPage ==
  [][ /\ \A rp \in MainRepos : \A feed \in Feeds :
           ( /\ cache_file'.state = "valid"
             /\ \/ PersistedSince(cache_file', rp, feed) # PersistedSince(cache_file, rp, feed)
                \/ PersistedPage(cache_file', rp, feed) # PersistedPage(cache_file, rp, feed) )
             => /\ rp \in done
                /\ ~Interrupted(rp, feed)
                /\ PersistedPage(cache_file', rp, feed) = 1
                /\ PersistedSince(cache_file', rp, feed) # <<>>
                /\ PersistedSince(cache_file', rp, feed)[1] <= now
      /\ (pc \in Feeds /\ pc' = "idle")
           => /\ PersistedSince(cache_file', repo, pc) = PersistedSince(snap.cache, repo, pc)
              /\ PersistedPage(cache_file', repo, pc) = PersistedPage(snap.cache, repo, pc) ]_vars

\* C14's case: a second run drained a repository's commits and was then
\* killed inside its issues; the cursors a completed run had persisted are as
\* that run left them.
C14_Witness ==
  /\ pc = "idle"
  /\ exit = "killed"
  /\ run = 2
  /\ intr.run = run
  /\ intr.feed = "issues"
  /\ snap.cache.state = "valid"
  /\ PersistedSince(snap.cache, intr.repo, "commits") # <<>>
  /\ PersistedSince(cache_file, intr.repo, "commits")
       = PersistedSince(snap.cache, intr.repo, "commits")
  /\ PersistedSince(cache_file, intr.repo, "issues")
       = PersistedSince(snap.cache, intr.repo, "issues")


\* The since written by the feed whose empty page was the last request.
SinceWritten ==
  cache.repos[ev.repo][IF ev.feed = "commits" THEN "c_since" ELSE "i_since"]
JustDrained ==
  /\ ev.run = run
  /\ ev.kind = "empty"
  /\ \/ ev.feed = "commits" /\ pc = "issues"
     \/ ev.feed = "issues" /\ pc \in {"next", "save", "write", "log"}

\* C15 (as claimed): after a feed's empty page the since stored for it is
\* not later than the moment the run made the feed's first request, and so
\* every commit that appeared on the remote since that moment and was not
\* recorded by this run is dated inside the next run's since-window.
C15_SinceNotLaterThanFeedStart ==
  JustDrained =>
    /\ SinceWritten <= ev.began
    /\ ev.feed = "commits" =>
         \A i \in DOMAIN remote_commits[ev.repo] :
           LET c == remote_commits[ev.repo][i] IN
           (c.date >= ev.began /\ c.sha \notin seen_shas) => c.date >= SinceWritten


\* C16 (as claimed): whenever the process has ended, however it ended, every
\* commit key and every issue key of a readable cache.json has its activity
\* record among the users of leaderboard.json.
C16_CacheKeysHaveRecords ==
  (pc = "idle" /\ cache_file.state = "valid") =>
    /\ \A sha \in cache_file.data.commits :
         \E pl \in RecordPlaces(output_file.users, "commits") :
           CommitAt(output_file.users, pl).sha = sha
    /\ \A k \in cache_file.data.issues :
         \E a \in ActivityPlaces(output_file.users) :
           /\ ActivityAt(output_file.users, a).repo = Base(k[1])
           /\ ActivityAt(output_file.users, a).number = k[3]


\* Whether two yielded records are of the same feed (commit hashes and
\* repo#number keys are kept in different sets).
SameFeed(y1, y2) == (y1.col = "commits") <=> (y2.col = "commits")

\* C17: while a run is live, the records its feeds have yielded carry
\* pairwise different keys, every such key is in the seen set of its feed,
\* and none of them was in the seen set the run started from.
C17_InRunDedup ==
  pc # "idle" =>
    /\ \A i, j \in DOMAIN fetched :
         (SameFeed(fetched[i], fetched[j]) /\ fetched[i].key = fetched[j].key)
           => i = j
    /\ \A i \in DOMAIN fetched :
         IF fetched[i].col = "commits"
         THEN /\ fetched[i].key \in seen_shas
              /\ fetched[i].key \notin PersistedCommits(snap.cache)
         ELSE /\ fetched[i].key \in seen_issues
              /\ fetched[i].key \notin PersistedIssues(snap.cache)

\* C17's case: a second run was served a page holding a commit recorded by
\* the first run next to a new one, and yielded only the new one.
C17_Witness ==
  /\ pc = "commits"
  /\ run = 2
  /\ ev.run = run
  /\ ev.kind = "page"
  /\ "s2" \in PersistedCommits(snap.cache)
  /\ Len(ev.yielded) = 1
  /\ ev.yielded[1].key = "s3"
  /\ Len(fetched) = 1


RECURSIVE Pow2(_)
Pow2(n) == IF n = 0 THEN 1 ELSE 2 * Pow2(n - 1)

\* C18 (as claimed): when every response of the call so far was a throttling
\* response without Retry-After (429, or 403 with a secondary-rate-limit
\* message), the wait after the k-th of them is min(2^(k-1), 60).
C18_KthWaitDoubles ==
  (sg_pc = "loop" /\ n_req > 0 /\ k_nohdr = n_req)
    => retry = Min(Pow2(n_req - 1), BackoffCeiling)


\* C19: a 403 without a rate-limit message ends the call with RuntimeError in
\* the step that receives it, with no sleep and no change of the backoff; a
\* response whose status is neither 429 nor 403 is returned in the step that
\* receives it, with no sleep; a returned response never has status 429 or
\* 403; and a call that has ended makes no further request.
C19_ForbiddenFailsOthersReturn ==
  [][ /\ (r'.status = 403 /\ ~IndicatesRateLimit(r'))
           => (sg_pc' = "raised RuntimeError" /\ retry' = retry /\ backoff' = backoff)
      /\ r'.status \notin {429, 403}
           => (sg_pc' = "returned" /\ retry' = retry /\ backoff' = backoff)
      /\ sg_pc' = "returned" => r'.status \notin {429, 403}
      /\ sg_pc # "loop" => n_req' = n_req ]_vars

\* C19's case: the first response is a 403 with a permission message and the
\* call has failed without having slept.
C19_Witness ==
  /\ sg_pc = "raised RuntimeError"
  /\ r.status = 403
  /\ r.message = PermissionMessage
  /\ n_req = 1
  /\ retry = 0


\* Whether an organization's listing is served up to its empty page with no
\* failed page before it.
RECURSIVE ReachesEmptyPage(_)
ReachesEmptyPage(pages) ==
  IF pages = <<>> THEN TRUE
  ELSE IF Head(pages).status # 200 THEN FALSE
  ELSE IF Head(pages).block = <<>> THEN TRUE
  ELSE ReachesEmptyPage(Tail(pages))

\* C20 (as claimed): a snapshot this resolution stored with the time it read
\* comes from a listing that was read up to its empty page: no page of that
\* listing was answered 404 or with another non-success status.
C20_FreshSnapshotIsComplete ==
  Resolved =>
    \A x \in DOMAIN res.after :
      (CallsFor(x) > 0 /\ res.after[x].ts \in Readings(x))
        => (x \in DOMAIN org_api /\ ReachesEmptyPage(org_api[x]))

====
